---- MODULE Spec2Model ----
(***************************************************************************)
(* Model of elasticsearch-common: the query clause model and its serde     *)
(* serialization (elasticsearch_query/src/dsl.rs), the ToClause capability *)
(* of the Range criteria type, and the Clauseable derive macro that        *)
(* generates to_clauses (elasticsearch_query_derive/src/lib.rs), together  *)
(* with the older copies of the same code (query, query_derive).           *)
(***************************************************************************)
EXTENDS Integers, Sequences, FiniteSets, TLC

VARIABLES
    fields,      \* the struct declaration handed to the derive macro
    criteria,    \* the criteria record (self): field ident -> Option<Range>
    clauses,     \* Vec<QueryClause> returned by the last to_clauses call
    calls,       \* number of to_clauses calls made on the current record
    old_clauses, \* Vec<QueryClause> returned by query_derive's to_clauses
    old_called,  \* whether query_derive's to_clauses ran on the current record
    query,       \* a QueryClause value held by the caller
    output,      \* the Result of serializing `query`
    sort,        \* a QuerySort value held by the caller
    sort_output  \* the Result of serializing `sort`

vars == <<fields, criteria, clauses, calls, old_clauses, old_called,
          query, output, sort, sort_output>>

(***************************************************************************)
(* Bounds of the model.                                                    *)
(***************************************************************************)
MaxFields == 3   \* fields of the criteria struct
MaxCalls == 2    \* to_clauses calls counted per record
MaxTerms == 2    \* length of a Terms value list

(***************************************************************************)
(* Option<T>, Result<T, E>                                                 *)
(***************************************************************************)
None == [none |-> TRUE]
Some(v) == [some |-> v]
IsSome(o) == "some" \in DOMAIN o
Ok(v) == [ok |-> v]
IsOk(r) == "ok" \in DOMAIN r

(***************************************************************************)
(* i32 and BigDecimal.  A BigDecimal built by from_i32 has scale 0 and an  *)
(* unbounded integer mantissa; it is modelled by that integer.             *)
(***************************************************************************)
I32_MAX == 2147483647
I32_MIN == -I32_MAX - 1
from_i32(n) == Some(n)
unwrap(o) == o.some

DigitChars == <<"0", "1", "2", "3", "4", "5", "6", "7", "8", "9">>

\* The decimal digits of -m, for m <= 0 (the magnitude of I32_MIN is not an i32).
RECURSIVE MagnitudeDigits(_)
MagnitudeDigits(m) ==
    LET d == (10 - (m % 10)) % 10
    IN  IF m > -10 THEN DigitChars[d + 1]
        ELSE MagnitudeDigits((m + d) \div 10) \o DigitChars[d + 1]

\* Display of a scale-0 BigDecimal: optional sign, then the digits.
DecimalText(n) ==
    IF n < 0 THEN "-" \o MagnitudeDigits(n) ELSE MagnitudeDigits(0 - n)

(***************************************************************************)
(* QueryClause, QuerySort                                                  *)
(***************************************************************************)
\* An enum value is a record with one key, the variant, holding its fields.
Match(field, search_val) ==
    [Match |-> [field |-> field, search_val |-> search_val]]
RangeClause(field, gte, lte) ==
    [Range |-> [field |-> field, gte |-> gte, lte |-> lte]]
Terms(field, search_val) ==
    [Terms |-> [field |-> field, search_val |-> search_val]]
Prefix(field, search_val, is_case_insensitive) ==
    [Prefix |-> [field |-> field, search_val |-> search_val,
                 is_case_insensitive |-> is_case_insensitive]]
Is(q, variant) == variant \in DOMAIN q
QuerySort(field_name, ordering) ==
    [field_name |-> field_name, ordering |-> ordering]
SortType == {"Asc", "Desc"}

(***************************************************************************)
(* The Range criteria type and its ToClause implementation.                *)
(***************************************************************************)
Range(lower_bound, upper_bound) ==
    [lower_bound |-> lower_bound, upper_bound |-> upper_bound]

\* to_clause with an absent bound read as the i32 default, 0.
to_clause_default_zero(self, field) ==
    LET gte == IF IsSome(self.lower_bound) THEN unwrap(self.lower_bound) ELSE 0
        lte == IF IsSome(self.upper_bound) THEN unwrap(self.upper_bound) ELSE 0
    IN  RangeClause(field, gte, lte)

\* to_clause that puts the smaller bound in gte and the larger in lte.
to_clause_normalised(self, field) ==
    LET lo == IF IsSome(self.lower_bound) THEN unwrap(self.lower_bound) ELSE I32_MIN
        hi == IF IsSome(self.upper_bound) THEN unwrap(self.upper_bound) ELSE I32_MAX
    IN  IF lo > hi THEN RangeClause(field, hi, lo) ELSE RangeClause(field, lo, hi)

to_clause(self, field) ==
    LET gte == IF IsSome(self.lower_bound)
               THEN unwrap(from_i32(unwrap(self.lower_bound)))
               ELSE unwrap(from_i32(I32_MIN))
        lte == IF IsSome(self.upper_bound)
               THEN unwrap(from_i32(unwrap(self.upper_bound)))
               ELSE unwrap(from_i32(I32_MAX))
    IN  RangeClause(field, gte, lte)

(***************************************************************************)
(* The Clauseable derive macro (elasticsearch_query_derive).  A field of   *)
(* the struct is [ident, attrs]; an attribute is [path, args].             *)
(***************************************************************************)
FIELD_ATTR_NAME == "search_field"

\* field.attrs.iter().find(|a| a.path.is_ident(FIELD_ATTR_NAME))
RECURSIVE find_attr(_, _)
find_attr(attrs, name) ==
    IF attrs = <<>> THEN None
    ELSE IF Head(attrs).path = name THEN Some(Head(attrs))
    ELSE find_attr(Tail(attrs), name)

\* The loop of impl_to_clauses: vec_push_expr, one push expression per field
\* that carries the attribute, in the order the fields are iterated.
\* impl_to_clauses without the attribute test: a field that lacks the
\* attribute is pushed under its own name.
RECURSIVE impl_to_clauses_all(_)
impl_to_clauses_all(fs) ==
    IF fs = <<>> THEN <<>>
    ELSE LET field == Head(fs)
             search_field_attr == find_attr(field.attrs, FIELD_ATTR_NAME)
         IN  <<[field_ident |-> field.ident,
                search_field_value |-> IF IsSome(search_field_attr)
                                       THEN unwrap(search_field_attr).args
                                       ELSE field.ident]>>
             \o impl_to_clauses_all(Tail(fs))

RECURSIVE impl_to_clauses(_)
impl_to_clauses(fs) ==
    IF fs = <<>> THEN <<>>
    ELSE LET field == Head(fs)
             search_field_attr == find_attr(field.attrs, FIELD_ATTR_NAME)
         IN  (IF IsSome(search_field_attr)
              THEN <<[field_ident |-> field.ident,
                      search_field_value |-> unwrap(search_field_attr).args]>>
              ELSE <<>>)
             \o impl_to_clauses(Tail(fs))

\* One generated statement:
\*   if let Some(ref criteria_value) = self.#field_ident {
\*       clauses.push(criteria_value.to_clause(#search_field_value.into())); }
\* The generated statement with clauses.insert(0, ..) for clauses.push(..).
push_expr_front(e, self, acc) ==
    IF IsSome(self[e.field_ident])
    THEN <<to_clause(unwrap(self[e.field_ident]), e.search_field_value)>> \o acc
    ELSE acc

\* The generated statement with unwrap_or_default() for the `if let Some`.
push_expr_placeholder(e, self, acc) ==
    IF IsSome(self[e.field_ident])
    THEN Append(acc, to_clause(unwrap(self[e.field_ident]), e.search_field_value))
    ELSE Append(acc, to_clause(Range(None, None), e.search_field_value))

push_expr(e, self, acc) ==
    IF IsSome(self[e.field_ident])
    THEN Append(acc, to_clause(unwrap(self[e.field_ident]), e.search_field_value))
    ELSE acc

\* #(#vec_push_expr)* : the generated statements run in sequence on `clauses`.
RECURSIVE run_push_exprs(_, _, _)
run_push_exprs(exprs, self, acc) ==
    IF exprs = <<>> THEN acc
    ELSE run_push_exprs(Tail(exprs), self, push_expr(Head(exprs), self, acc))

\* The generated method: let mut clauses = vec![]; ...; clauses
to_clauses(decl, self) == run_push_exprs(impl_to_clauses(decl), self, <<>>)

(***************************************************************************)
(* The older copies: query::dsl's Range and query_derive's macro, which    *)
(* binds the field's value by copy instead of by reference.                *)
(***************************************************************************)
\* The older to_clause with both sentinels taken from i32::MIN.
query_to_clause_min_sentinels(self, field) ==
    LET gte == IF IsSome(self.lower_bound) THEN unwrap(self.lower_bound) ELSE I32_MIN
        lte == IF IsSome(self.upper_bound) THEN unwrap(self.upper_bound) ELSE I32_MIN
    IN  RangeClause(field, gte, lte)

query_to_clause(self, field) ==
    LET gte == IF IsSome(self.lower_bound)
               THEN unwrap(from_i32(unwrap(self.lower_bound)))
               ELSE unwrap(from_i32(I32_MIN))
        lte == IF IsSome(self.upper_bound)
               THEN unwrap(from_i32(unwrap(self.upper_bound)))
               ELSE unwrap(from_i32(I32_MAX))
    IN  RangeClause(field, gte, lte)

RECURSIVE query_impl_to_clauses(_)
query_impl_to_clauses(fs) ==
    IF fs = <<>> THEN <<>>
    ELSE LET field == Head(fs)
             search_field_attr == find_attr(field.attrs, FIELD_ATTR_NAME)
         IN  (IF IsSome(search_field_attr)
              THEN <<[field_ident |-> field.ident,
                      search_field_value |-> unwrap(search_field_attr).args]>>
              ELSE <<>>)
             \o query_impl_to_clauses(Tail(fs))

\*   if let Some(criteria_value) = self.#field_ident { ... }
query_push_expr(e, self, acc) ==
    LET criteria_value == self[e.field_ident]   \* a copy of the Option<Range>
    IN  IF IsSome(criteria_value)
        THEN Append(acc, query_to_clause(unwrap(criteria_value), e.search_field_value))
        ELSE acc

RECURSIVE query_run_push_exprs(_, _, _)
query_run_push_exprs(exprs, self, acc) ==
    IF exprs = <<>> THEN acc
    ELSE query_run_push_exprs(Tail(exprs), self, query_push_expr(Head(exprs), self, acc))

query_to_clauses(decl, self) ==
    query_run_push_exprs(query_impl_to_clauses(decl), self, <<>>)

(***************************************************************************)
(* serde: the calls the Serialize impls make on the serializer.  A map is  *)
(* the sequence of its entries <<key, value>> in the order they were       *)
(* written; every call returns a Result, and `?` passes an Err on.         *)
(***************************************************************************)
serialize_str(s) == Ok([str |-> s])
serialize_bool(b) == Ok([bool |-> b])
\* Vec<String>: a sequence whose elements are serialized one by one, in order.
serialize_seq(v) == Ok([arr |-> [i \in 1..Len(v) |-> serialize_str(v[i]).ok]])
\* BigDecimal: collect_str of its Display text.
serialize_decimal(d) == serialize_str(DecimalText(d))
serialize_map(len) == Ok(<<>>)
serialize_entry(map, key, value) ==
    IF ~IsOk(map) THEN map
    ELSE IF ~IsOk(value) THEN value
    ELSE Ok(Append(map.ok, <<key, value.ok>>))
end(map) == IF IsOk(map) THEN Ok([obj |-> map.ok]) ELSE map

\* Display written as Debug would print the variant.
SortType_to_string_debug(self) ==
    CASE self = "Asc" -> "Asc"
      [] self = "Desc" -> "Desc"

\* impl fmt::Display for SortType
SortType_to_string(self) ==
    CASE self = "Asc" -> "asc"
      [] self = "Desc" -> "desc"

\* impl Serialize for QuerySort
QuerySort_serialize(self) ==
    LET map0 == serialize_map(1)
        map1 == serialize_entry(map0, self.field_name,
                                serialize_str(SortType_to_string(self.ordering)))
    IN  end(map1)

\* impl Serialize for InnerRange
InnerRange_serialize(gte, lte) ==
    LET map0 == serialize_map(2)
        map1 == serialize_entry(map0, "gte", serialize_decimal(gte))
        map2 == serialize_entry(map1, "lte", serialize_decimal(lte))
    IN  end(map2)

\* InnerPrefix with its two entries written in the other order.
InnerPrefix_serialize_swapped(search_val, is_case_insensitive) ==
    LET map0 == serialize_map(2)
        map1 == serialize_entry(map0, "case_insensitive",
                                serialize_bool(is_case_insensitive))
        map2 == serialize_entry(map1, "value", serialize_str(search_val))
    IN  end(map2)

\* impl Serialize for InnerPrefix
InnerPrefix_serialize(search_val, is_case_insensitive) ==
    LET map0 == serialize_map(2)
        map1 == serialize_entry(map0, "value", serialize_str(search_val))
        map2 == serialize_entry(map1, "case_insensitive",
                                serialize_bool(is_case_insensitive))
    IN  end(map2)

\* The Terms arm with repeated values written once.
RECURSIVE Dedup(_)
Dedup(v) ==
    IF v = <<>> THEN <<>>
    ELSE LET rest == Dedup(SubSeq(v, 1, Len(v) - 1))
         IN  IF \E i \in 1..(Len(v) - 1) : v[i] = v[Len(v)]
             THEN rest ELSE Append(rest, v[Len(v)])
Terms_values_serialize_dedup(search_val) == serialize_seq(Dedup(search_val))

\* The Terms arm of InnerQueryClause::serialize writes the Vec under the field.
Terms_values_serialize(search_val) == serialize_seq(search_val)

\* impl Serialize for InnerQueryClause
InnerQueryClause_serialize(query_) ==
    LET map0 == serialize_map(1)
    IN  CASE Is(query_, "Match") ->
                 end(serialize_entry(map0, query_.Match.field,
                                     serialize_str(query_.Match.search_val)))
          [] Is(query_, "Range") ->
                 end(serialize_entry(map0, query_.Range.field,
                                     InnerRange_serialize(query_.Range.gte,
                                                          query_.Range.lte)))
          [] Is(query_, "Terms") ->
                 end(serialize_entry(map0, query_.Terms.field,
                                     Terms_values_serialize(query_.Terms.search_val)))
          [] Is(query_, "Prefix") ->
                 end(serialize_entry(map0, query_.Prefix.field,
                                     InnerPrefix_serialize(
                                         query_.Prefix.search_val,
                                         query_.Prefix.is_case_insensitive)))

\* impl Serialize for QueryClause
QueryClause_serialize(self) ==
    LET map0 == serialize_map(1)
        map1 == CASE Is(self, "Match") ->
                         serialize_entry(map0, "match", InnerQueryClause_serialize(self))
                  [] Is(self, "Range") ->
                         serialize_entry(map0, "range", InnerQueryClause_serialize(self))
                  [] Is(self, "Terms") ->
                         serialize_entry(map0, "terms", InnerQueryClause_serialize(self))
                  [] Is(self, "Prefix") ->
                         serialize_entry(map0, "prefix", InnerQueryClause_serialize(self))
    IN  end(map1)

(***************************************************************************)
(* Inputs: struct declarations, criteria values, clauses and sorts.        *)
(***************************************************************************)
FieldIdent(i) == "criteria_" \o ToString(i)
SearchPath(i) == "doc.field_" \o ToString(i)
DocAttr == [path |-> "doc", args |-> "a criteria field"]
SearchFieldAttr(p) == [path |-> FIELD_ATTR_NAME, args |-> p]

\* A field without the attribute, with it, and with it after another
\* attribute and before a second search_field.
AttrChoices(i) ==
    { <<DocAttr>>,
      <<SearchFieldAttr(SearchPath(i))>>,
      <<DocAttr, SearchFieldAttr(SearchPath(i)), SearchFieldAttr("shadowed")>> }

Decls ==
    { d \in [1..MaxFields -> [ident : {FieldIdent(i) : i \in 1..MaxFields},
                               attrs : UNION {AttrChoices(i) : i \in 1..MaxFields}]] :
        \A i \in 1..MaxFields :
            d[i].ident = FieldIdent(i) /\ d[i].attrs \in AttrChoices(i) }

\* Open on both sides, open below, closed, and inverted (lower > upper).
Ranges ==
    { Range(None, None), Range(None, Some(12)),
      Range(Some(-3), Some(12)), Range(Some(12), Some(-3)) }
OptRanges == {None} \cup {Some(r) : r \in Ranges}

Idents(decl) == {decl[i].ident : i \in DOMAIN decl}
EmptyCriteria(decl) == [id \in Idents(decl) |-> None]

FieldNames == {"fund_name", "fund_statistics.return_ytd"}
SearchVals == {"global", "k-ghealth"}
TermVals == {"1", "2"}
TermLists == UNION {[1..n -> TermVals] : n \in 0..MaxTerms}
Decimals == {I32_MIN, -3, 0, 12, I32_MAX}
QueryClauses ==
    {Match(f, v) : f \in FieldNames, v \in SearchVals}
    \cup {RangeClause(f, d[1], d[2]) : f \in FieldNames, d \in Decimals \X Decimals}
    \cup {Terms(f, v) : f \in FieldNames, v \in TermLists}
    \cup {Prefix(f, v[1], v[2]) : f \in FieldNames, v \in SearchVals \X BOOLEAN}
QuerySorts == {QuerySort(f, o) : f \in FieldNames, o \in SortType}

(***************************************************************************)
(* The extraction pipeline: a caller builds a criteria record, calls the   *)
(* generated to_clauses on it and serializes the clauses it got.           *)
(***************************************************************************)
Init ==
    /\ fields \in Decls
    /\ criteria = EmptyCriteria(fields)
    /\ clauses = <<>>
    /\ calls = 0
    /\ old_clauses = <<>>
    /\ old_called = FALSE
    /\ query = None
    /\ output = None
    /\ sort = None
    /\ sort_output = None

\* The caller fills one field of the record it is building.
SetField(i, v) ==
    /\ calls = 0 /\ ~old_called
    /\ criteria[fields[i].ident] # v
    /\ criteria' = [criteria EXCEPT ![fields[i].ident] = v]
    /\ UNCHANGED <<fields, clauses, calls, old_clauses, old_called,
                   query, output, sort, sort_output>>

\* to_clauses that takes each annotated field out of the record (Option::take).
ToClausesTaking ==
    /\ calls < MaxCalls
    /\ clauses' = to_clauses(fields, criteria)
    /\ calls' = calls + 1
    /\ criteria' = [id \in DOMAIN criteria |->
                       IF \E i \in DOMAIN fields :
                              /\ fields[i].ident = id
                              /\ IsSome(find_attr(fields[i].attrs, FIELD_ATTR_NAME))
                       THEN None ELSE criteria[id]]
    /\ UNCHANGED <<fields, old_clauses, old_called, query, output, sort, sort_output>>

\* criteria.to_clauses(), generated by elasticsearch_query_derive: takes &self.
ToClauses ==
    /\ calls < MaxCalls
    /\ clauses' = to_clauses(fields, criteria)
    /\ calls' = calls + 1
    /\ UNCHANGED <<fields, criteria, old_clauses, old_called,
                   query, output, sort, sort_output>>

\* criteria.to_clauses(), generated by query_derive.
ToClausesOld ==
    /\ ~old_called
    /\ old_clauses' = query_to_clauses(fields, criteria)
    /\ old_called' = TRUE
    /\ UNCHANGED <<fields, criteria, clauses, calls, query, output, sort, sort_output>>

\* The caller serializes one of the clauses extraction returned.
SerializeClause(i) ==
    /\ calls > 0
    /\ i \in 1..Len(clauses)
    /\ query' = clauses[i]
    /\ output' = QueryClause_serialize(clauses[i])
    /\ UNCHANGED <<fields, criteria, clauses, calls, old_clauses, old_called,
                   sort, sort_output>>

\* The request is over: the record and what was derived from it are dropped.
Drop ==
    /\ calls > 0 \/ old_called
    /\ criteria' = EmptyCriteria(fields)
    /\ clauses' = <<>>
    /\ calls' = 0
    /\ old_clauses' = <<>>
    /\ old_called' = FALSE
    /\ query' = None
    /\ output' = None
    /\ UNCHANGED <<fields, sort, sort_output>>

Next ==
    \/ \E i \in 1..MaxFields, v \in OptRanges : SetField(i, v)
    \/ ToClauses
    \/ \E i \in 1..MaxFields : SerializeClause(i)
    \/ Drop

Spec == Init /\ [][Next]_vars

(***************************************************************************)
(* The two generations of the derive macro run on the same record.         *)
(***************************************************************************)
EquivNext ==
    \/ \E i \in 1..MaxFields, v \in OptRanges : SetField(i, v)
    \/ ToClauses
    \/ ToClausesOld
    \/ Drop

EquivSpec == Init /\ [][EquivNext]_vars

(***************************************************************************)
(* The clause model and its serializer on clauses and sorts of every kind. *)
(***************************************************************************)
SerInit ==
    /\ fields = <<>>
    /\ criteria = <<>>
    /\ clauses = <<>>
    /\ calls = 0
    /\ old_clauses = <<>>
    /\ old_called = FALSE
    /\ query = None
    /\ output = None
    /\ sort = None
    /\ sort_output = None

NewQuery(q) ==
    /\ query' = q
    /\ output' = None
    /\ UNCHANGED <<fields, criteria, clauses, calls, old_clauses, old_called,
                   sort, sort_output>>

SerializeQuery ==
    /\ query # None
    /\ output' = QueryClause_serialize(query)
    /\ UNCHANGED <<fields, criteria, clauses, calls, old_clauses, old_called,
                   query, sort, sort_output>>

NewSort(s) ==
    /\ sort' = s
    /\ sort_output' = None
    /\ UNCHANGED <<fields, criteria, clauses, calls, old_clauses, old_called,
                   query, output>>

SerializeSort ==
    /\ sort # None
    /\ sort_output' = QuerySort_serialize(sort)
    /\ UNCHANGED <<fields, criteria, clauses, calls, old_clauses, old_called,
                   query, output, sort>>

SerNext ==
    \/ \E q \in QueryClauses : NewQuery(q)
    \/ SerializeQuery
    \/ \E s \in QuerySorts : NewSort(s)
    \/ SerializeSort

SerSpec == SerInit /\ [][SerNext]_vars

(***************************************************************************)
(* What the specification says of extraction, stated on the declaration    *)
(* and the record, without running the generated code.                     *)
(***************************************************************************)
Annotated(f) == \E k \in DOMAIN f.attrs : f.attrs[k].path = "search_field"
AnnotatedPath(f) ==
    LET k == CHOOSE k \in DOMAIN f.attrs :
                 /\ f.attrs[k].path = "search_field"
                 /\ \A j \in 1..(k - 1) : f.attrs[j].path # "search_field"
    IN  f.attrs[k].args
\* The annotated fields whose value is present, by position in the declaration.
Present ==
    {i \in DOMAIN fields : Annotated(fields[i]) /\ IsSome(criteria[fields[i].ident])}
\* Where the clause of present field i stands if declaration order is kept.
Position(i) == Cardinality({k \in Present : k <= i})
ValueOf(i) == unwrap(criteria[fields[i].ident])

\* C1: after to_clauses, the returned sequence is exactly the clauses of the
\* present annotated fields in declaration order: the clause of a field
\* declared earlier stands before that of a field declared later, and each is
\* that value's to_clause on the field's annotated path.
C1_DeclarationOrder ==
    calls > 0 =>
        /\ Len(clauses) = Cardinality(Present)
        /\ \A i \in Present :
               clauses[Position(i)] = to_clause(ValueOf(i), AnnotatedPath(fields[i]))
        /\ \A i, j \in Present : i < j => Position(i) < Position(j)

C1_Witness ==
    /\ calls > 0
    /\ Cardinality(Present) >= 2
    /\ \E i, j, k \in DOMAIN fields : i < j /\ j < k /\ i \in Present
                                       /\ j \notin Present /\ k \in Present

\* C2: an absent field contributes nothing: as many clauses are returned as
\* there are annotated fields with a present value, and a record whose fields
\* are all absent yields the empty sequence.
C2_AbsentContributesNothing ==
    calls > 0 =>
        /\ Len(clauses) = Cardinality(Present)
        /\ (\A id \in DOMAIN criteria : criteria[id] = None) => clauses = <<>>

C2_Witness ==
    /\ calls > 0
    /\ clauses # <<>>
    /\ \E i \in DOMAIN fields : Annotated(fields[i]) /\ criteria[fields[i].ident] = None

\* C3: fields without a search_field attribute are ignored: a record that
\* differs from the extracted one only in the value of an unannotated field
\* gives the same clause sequence.
C3_UnannotatedIgnored ==
    calls > 0 =>
        \A i \in DOMAIN fields : \A v \in OptRanges :
            ~Annotated(fields[i]) =>
                to_clauses(fields, [criteria EXCEPT ![fields[i].ident] = v]) = clauses

C3_Witness ==
    /\ calls > 0
    /\ clauses # <<>>
    /\ \E i \in DOMAIN fields : ~Annotated(fields[i]) /\ IsSome(criteria[fields[i].ident])

\* C6: to_clause of a range always yields a Range clause on the given field
\* whose gte is the lower bound, or i32::MIN when it is absent, and whose lte
\* is the upper bound, or i32::MAX when it is absent; a range with both bounds
\* absent still yields its clause.
C6_RangeSentinels ==
    calls > 0 =>
        \A i \in Present :
            LET r == ValueOf(i)
                c == clauses[Position(i)]
            IN  /\ Is(c, "Range")
                /\ c.Range.field = AnnotatedPath(fields[i])
                /\ c.Range.gte = IF r.lower_bound = None THEN I32_MIN
                                 ELSE r.lower_bound.some
                /\ c.Range.lte = IF r.upper_bound = None THEN I32_MAX
                                 ELSE r.upper_bound.some

C6_Witness ==
    /\ calls > 0
    /\ \E i \in Present :
           /\ ValueOf(i) = Range(None, None)
           /\ clauses[Position(i)].Range.gte = I32_MIN
           /\ clauses[Position(i)].Range.lte = I32_MAX

\* C8: extraction leaves the record as it was: a step that makes a
\* to_clauses call changes no field of the record, and a call after the first
\* on the same record returns what the call before it returned.
C8_RecordUnchanged ==
    [][calls' > calls =>
           /\ criteria' = criteria
           /\ (calls >= 1 => clauses' = clauses)]_vars

C8_Witness ==
    /\ calls >= 2
    /\ clauses # <<>>

(***************************************************************************)
(* The wire grammar of the specification, written out as JSON values.      *)
(***************************************************************************)
JsonStr(s) == [str |-> s]
JsonObj1(k, v) == [obj |-> << <<k, v>> >>]
JsonObj2(k1, v1, k2, v2) == [obj |-> << <<k1, v1>>, <<k2, v2>> >>]
Grammar(q) ==
    CASE Is(q, "Match") ->
             JsonObj1("match", JsonObj1(q.Match.field, JsonStr(q.Match.search_val)))
      [] Is(q, "Range") ->
             JsonObj1("range",
                 JsonObj1(q.Range.field,
                     JsonObj2("gte", JsonStr(ToString(q.Range.gte)),
                              "lte", JsonStr(ToString(q.Range.lte)))))
      [] Is(q, "Terms") ->
             JsonObj1("terms",
                 JsonObj1(q.Terms.field,
                     [arr |-> [i \in DOMAIN q.Terms.search_val |->
                                  JsonStr(q.Terms.search_val[i])]]))
      [] Is(q, "Prefix") ->
             JsonObj1("prefix",
                 JsonObj1(q.Prefix.field,
                     JsonObj2("value", JsonStr(q.Prefix.search_val),
                              "case_insensitive",
                              [bool |-> q.Prefix.is_case_insensitive])))

\* C4: serializing a clause of any of the four variants writes an outer
\* object with the one key of its variant (match, range, terms, prefix),
\* holding an object with the one key of its field, holding the body of the
\* grammar: the string for Match, the list for Terms, gte then lte as decimal
\* text for Range, value then case_insensitive for Prefix.
C4_SerializedShape ==
    output # None => output = Ok(Grammar(query))

C4_Witness ==
    /\ output # None
    /\ Is(query, "Prefix")
    /\ query.Prefix.is_case_insensitive

\* C5: serializing a sort writes an object with the one key of its field
\* name, holding "asc" for Asc and "desc" for Desc and nothing else.
C5_SortShape ==
    sort_output # None =>
        /\ IsOk(sort_output)
        /\ Len(sort_output.ok.obj) = 1
        /\ sort_output.ok.obj[1][1] = sort.field_name
        /\ sort_output.ok.obj[1][2] \in {JsonStr("asc"), JsonStr("desc")}
        /\ sort_output.ok.obj[1][2] = JsonStr("asc") <=> sort.ordering = "Asc"
        /\ sort_output.ok.obj[1][2] = JsonStr("desc") <=> sort.ordering = "Desc"

C5_Witness ==
    /\ sort_output # None
    /\ sort.ordering = "Desc"

\* The list a serialized Terms clause holds under its field.
EmittedTerms == output.ok.obj[1][2].obj[1][2].arr

\* C7: a serialized Terms clause holds a list as long as the caller's, with
\* the caller's element at every position: nothing reordered, nothing
\* dropped, and the empty list for an empty list.
C7_TermsVerbatim ==
    (output # None /\ Is(query, "Terms")) =>
        /\ IsOk(output)
        /\ Len(EmittedTerms) = Len(query.Terms.search_val)
        /\ \A i \in 1..Len(query.Terms.search_val) :
               EmittedTerms[i] = JsonStr(query.Terms.search_val[i])
        /\ query.Terms.search_val = <<>> => EmittedTerms = <<>>

C7_Witness ==
    /\ output # None
    /\ Is(query, "Terms")
    /\ Len(query.Terms.search_val) >= 2
    /\ query.Terms.search_val[1] = query.Terms.search_val[2]

\* C9: an inverted range is rejected nowhere: to_clauses returns its clause
\* with gte and lte equal to the bounds as supplied, neither swapped nor
\* clamped, and serializing that clause succeeds with gte and lte in their
\* places.
C9_InvertedRangePassesThrough ==
    /\ calls > 0 =>
           \A i \in Present :
               LET r == ValueOf(i)
               IN  (/\ IsSome(r.lower_bound) /\ IsSome(r.upper_bound)
                    /\ r.lower_bound.some > r.upper_bound.some)
                   => clauses[Position(i)] =
                          RangeClause(AnnotatedPath(fields[i]),
                                      r.lower_bound.some, r.upper_bound.some)
    /\ (output # None /\ Is(query, "Range") /\ query.Range.gte > query.Range.lte) =>
           /\ IsOk(output)
           /\ output.ok.obj[1][2].obj[1][2] =
                  JsonObj2("gte", JsonStr(ToString(query.Range.gte)),
                           "lte", JsonStr(ToString(query.Range.lte)))

C9_Witness ==
    /\ output # None
    /\ Is(query, "Range")
    /\ query.Range.gte > query.Range.lte
    /\ \E i \in Present : ValueOf(i) = Range(Some(query.Range.gte), Some(query.Range.lte))

\* C10: on the same declaration and the same record of copyable values, the
\* to_clauses generated by query_derive and the one generated by
\* elasticsearch_query_derive return equal clause sequences.
C10_ExtractorsAgree ==
    (calls > 0 /\ old_called) =>
        /\ Len(old_clauses) = Len(clauses)
        /\ \A k \in 1..Len(clauses) : old_clauses[k] = clauses[k]

C10_Witness ==
    /\ calls > 0
    /\ old_called
    /\ Len(clauses) >= 2
    /\ \E k \in 1..Len(clauses) : clauses[k].Range.lte = I32_MAX

====
